---------------------------- MODULE Spec2Model ----------------------------
(***************************************************************************)
(* paper2chunk: the structuring-and-slicing core, the pipeline steps in    *)
(* front of it, the MinerU polling and the legacy raw-text chunker.        *)
(*                                                                         *)
(*   MinerUParser.parse / _poll_extract_results_batch                      *)
(*   MinerUParser._convert_content_list (core/pdf_parser_new.py)           *)
(*   SemanticChunker._chunk_raw_text    (core/semantic_chunker.py)         *)
(*   LogicRepairer.repair_hierarchy     (core/logic_repair.py)             *)
(*   TreeBuilder.build_tree        (core/tree_builder.py)                  *)
(*   DualThresholdChunker          (core/semantic_chunker_new.py)          *)
(*   TreeNode.get_total_tokens     (models.py)                             *)
(*                                                                         *)
(* Text is a sequence of one-character strings.  An Optional[int] is a     *)
(* sequence of length 0 (None) or 1 (the value).                           *)
(***************************************************************************)
EXTENDS Integers, Sequences, FiniteSets, TLC

VARIABLES
    content_list,  \* MinerU's content_list in a pipeline run, else None
    repair_response, \* what the language model answers to a repair request
    blocks,        \* the Block list handed to build_tree
    soft_limit,    \* ChunkingConfig.soft_limit
    hard_limit,    \* ChunkingConfig.hard_limit
    llm_config,    \* the llm_config argument of DualThresholdChunker.__init__
    llm_response,  \* what the language model answers to a split request
    pc,            \* position of the pipeline
    tree,          \* the TreeNode objects, 0 is the root, k the node of block k
    stack,         \* build_tree's stack (node indices, bottom first)
    i,             \* build_tree's loop position (index of the next block)
    llm_client,    \* DualThresholdChunker.llm_client
    chunks,        \* DualThresholdChunker.chunks
    results,       \* the lists returned by the calls of chunk_tree so far
    nextId,        \* number of uuid4 values drawn so far
    max_poll_attempts, \* MinerUConfig.max_poll_attempts
    attempt,       \* the loop variable of _poll_extract_results_batch
    responses,     \* what requests.get gave to the status requests so far
    poll_pc,       \* position of MinerUParser.parse
    poll_error,    \* the exception that left parse, else None
    batch_item,    \* the item returned by the polling, else None
    raw_text,      \* Document.raw_text handed to the legacy chunker
    max_chunk_size, \* ChunkingConfig.max_chunk_size
    min_chunk_size, \* ChunkingConfig.min_chunk_size
    overlap_size,  \* ChunkingConfig.overlap_size
    chunk_start,   \* the local start of _chunk_raw_text
    raw_chunks,    \* the chunks list of _chunk_raw_text
    legacy_pc      \* position of SemanticChunker._chunk_raw_text

coreVars == << content_list, repair_response, blocks, soft_limit, hard_limit,
               llm_config, llm_response, pc, tree,
               stack, i, llm_client, chunks, results, nextId >>

pollVars == << max_poll_attempts, attempt, responses, poll_pc, poll_error,
               batch_item >>

legacyVars == << raw_text, max_chunk_size, min_chunk_size, overlap_size,
                 chunk_start, raw_chunks, legacy_pc >>

vars == << content_list, repair_response, blocks, soft_limit, hard_limit,
           llm_config, llm_response, pc, tree,
           stack, i, llm_client, chunks, results, nextId,
           max_poll_attempts, attempt, responses, poll_pc, poll_error,
           batch_item, raw_text, max_chunk_size, min_chunk_size,
           overlap_size, chunk_start, raw_chunks, legacy_pc >>

-----------------------------------------------------------------------------
(* Bounds of the model *)

MaxBlocks == 3
MaxTreeBlocks == 4
MaxLevel == 3
MaxRuns == 2
MaxItems == 3
MaxPollAttempts == 3
MaxTextLen == 6
MaxChunkSize == 5
MaxOverlap == 4
MaxRawChunks == 4

(* 1 token is estimated as 4 characters *)
CharsPerToken == 4

(* Block.level: "Header level (1-4)" *)
HeaderLevelMax == 4

-----------------------------------------------------------------------------
(* Text *)

None == << >>
Some(v) == << v >>

Space == " "
Newline == "\n"
Whitespace == { Space, Newline }

Letter == << "a", "b", "c", "d", "e", "f" >>
TitleLetter == << "A", "B", "C", "D", "E", "F" >>

Rep(c, n) == [ j \in 1..n |-> c ]

RECURSIVE Join(_, _)
Join(parts, sep) ==
    IF parts = << >> THEN << >>
    ELSE IF Len(parts) = 1 THEN parts[1]
    ELSE parts[1] \o sep \o Join(Tail(parts), sep)

BlankLine == << Newline, Newline >>

RECURSIVE LStrip(_)
LStrip(s) ==
    IF s # << >> /\ s[1] \in Whitespace THEN LStrip(Tail(s)) ELSE s

RECURSIVE RStrip(_)
RStrip(s) ==
    IF s # << >> /\ s[Len(s)] \in Whitespace
    THEN RStrip(SubSeq(s, 1, Len(s) - 1)) ELSE s

Strip(s) == RStrip(LStrip(s))

(* content[start:end] for 0 <= start, end *)
Slice(s, start, end) ==
    SubSeq(s, start + 1, IF end < Len(s) THEN end ELSE Len(s))

count_tokens(text) == Len(text) \div CharsPerToken

-----------------------------------------------------------------------------
(* Blocks *)

Block(id, type, text, level, page) ==
    [ id |-> id, type |-> type, text |-> text, level |-> level, page |-> page ]

(* Python truthiness of an Optional[int]: None and 0 are false *)
Truthy(level) == level # None /\ level[1] # 0

-----------------------------------------------------------------------------
(* MinerUParser._convert_content_list *)

(* an item of content_list: text_level is None when the key is absent or  *)
(* its value is not an int; only the key text carries text                *)
Item(type, text, text_level, page_idx) ==
    [ type |-> type, text |-> text, text_level |-> text_level,
      page_idx |-> page_idx ]

NoiseTypes == { "header", "footer", "page_header", "page_footer" }

(* the Block of the item at the 0-based position idx (id "block_{idx}") *)
BlockOfItem(item, idx) ==
    IF item.type = "text"
    THEN IF item.text_level # None /\ item.text_level[1] > 0
         THEN Block(idx, "header", item.text, item.text_level,
                    item.page_idx + 1)
         ELSE Block(idx, "text", item.text, None, item.page_idx + 1)
    ELSE IF item.type = "image"
    THEN Block(idx, "image", << >>, None, item.page_idx + 1)
    ELSE Block(idx, item.type, item.text, None, item.page_idx + 1)

RECURSIVE ConvertFrom(_, _)
ConvertFrom(items, idx) ==
    IF idx >= Len(items) THEN << >>
    ELSE (IF items[idx + 1].type \in NoiseTypes THEN << >>
          ELSE << BlockOfItem(items[idx + 1], idx) >>)
         \o ConvertFrom(items, idx + 1)

_convert_content_list(items) == ConvertFrom(items, 0)

ConvertContentList ==
    /\ UNCHANGED << pollVars, legacyVars >>
    /\ pc = "parse"
    /\ blocks' = _convert_content_list(content_list[1])
    /\ pc' = "repair"
    /\ UNCHANGED << content_list, repair_response, soft_limit, hard_limit,
                    llm_config, llm_response, tree, stack, i, llm_client,
                    chunks, results, nextId >>

-----------------------------------------------------------------------------
(* LogicRepairer *)

Digit == { "0", "1", "2", "3", "4", "5", "6", "7", "8", "9" }

RECURSIVE DropDigits(_)
DropDigits(s) ==
    IF s # << >> /\ s[1] \in Digit THEN DropDigits(Tail(s)) ELSE s

(* s matches ^\d+(\.\d+){groups - 1} followed by tail, a set of characters *)
RECURSIVE MatchesNumbering(_, _, _)
MatchesNumbering(s, groups, tail) ==
    /\ s # << >>
    /\ s[1] \in Digit
    /\ LET rest == DropDigits(s)
       IN  /\ rest # << >>
           /\ IF groups = 1 THEN rest[1] \in tail
              ELSE /\ rest[1] = "."
                   /\ MatchesNumbering(Tail(rest), groups - 1, tail)

ChapterWord ==
    << { "C", "c" }, { "H", "h" }, { "A", "a" }, { "P", "p" }, { "T", "t" },
       { "E", "e" }, { "R", "r" } >>

StartsWithChapter(s) ==
    /\ Len(s) >= Len(ChapterWord)
    /\ \A j \in DOMAIN ChapterWord : s[j] \in ChapterWord[j]

(* the patterns in the order of the code; "1. x" is numbering of one group *)
(* followed by "." and white space, and the text alphabet has no CJK       *)
(* chapter mark                                                            *)
_infer_level(text) ==
    IF StartsWithChapter(text) THEN 1
    ELSE IF MatchesNumbering(text, 1, { "." })
            /\ LET rest == Tail(DropDigits(text))
               IN  rest # << >> /\ rest[1] \in Whitespace
    THEN 2
    ELSE IF MatchesNumbering(text, 2, Whitespace) THEN 3
    ELSE IF MatchesNumbering(text, 3, Whitespace) THEN 4
    ELSE 2

(* the headers; corrected_level is None while the key is not in the dict *)
_extract_skeleton(bs) ==
    LET headers == SelectSeq(bs, LAMBDA b : b.type = "header")
    IN  [ j \in DOMAIN headers |->
            [ id |-> headers[j].id, text |-> headers[j].text,
              original_level |-> headers[j].level,
              corrected_level |-> None ] ]

(* a level as pydantic will take it: an Optional[int], or a value that    *)
(* Block(level=...) rejects                                                *)
Level(level, valid) == [ level |-> level, valid |-> valid ]

(* for item in corrected_levels: the entries in answer order, an index    *)
(* out of range being skipped                                              *)
RECURSIVE ApplyLevels(_, _)
ApplyLevels(skeleton, entries) ==
    IF entries = << >> THEN skeleton
    ELSE LET idx == entries[1].index
             applied ==
                 IF 0 <= idx /\ idx < Len(skeleton)
                 THEN [ skeleton EXCEPT ![idx + 1].corrected_level =
                            Some(Level(entries[1].level, entries[1].valid)) ]
                 ELSE skeleton
         IN  ApplyLevels(applied, Tail(entries))

(* except ...: every header gets original_level or the inferred level *)
FallbackLevels(skeleton) ==
    [ j \in DOMAIN skeleton |->
        [ skeleton[j] EXCEPT !.corrected_level =
            Some(Level(IF Truthy(skeleton[j].original_level)
                       THEN skeleton[j].original_level
                       ELSE Some(_infer_level(skeleton[j].text)),
                       TRUE)) ] ]

_llm_repair(skeleton, response) ==
    IF response.kind = "levels"
    THEN ApplyLevels(skeleton, response.levels)
    ELSE FallbackLevels(skeleton)

(* level_map[id]: corrected_level, or original_level without that key *)
MappedLevel(entry) ==
    IF entry.corrected_level # None THEN entry.corrected_level[1]
    ELSE Level(entry.original_level, TRUE)

InSkeleton(skeleton, id) == \E j \in DOMAIN skeleton : skeleton[j].id = id

EntryOf(skeleton, id) ==
    skeleton[CHOOSE j \in DOMAIN skeleton : skeleton[j].id = id]

(* building the new Block raises a ValidationError for a level that is    *)
(* not an Optional[int]                                                    *)
WriteBackRaises(bs, skeleton) ==
    \E k \in DOMAIN bs :
        /\ InSkeleton(skeleton, bs[k].id)
        /\ ~ MappedLevel(EntryOf(skeleton, bs[k].id)).valid

_write_back_levels(bs, skeleton) ==
    [ k \in DOMAIN bs |->
        IF InSkeleton(skeleton, bs[k].id)
        THEN [ bs[k] EXCEPT
                 !.level = MappedLevel(EntryOf(skeleton, bs[k].id)).level ]
        ELSE bs[k] ]

RepairHierarchy ==
    /\ UNCHANGED << pollVars, legacyVars >>
    /\ pc = "repair"
    /\ LET skeleton == _extract_skeleton(blocks)
           corrected_skeleton == _llm_repair(skeleton, repair_response)
       IN  IF skeleton = << >>
           THEN blocks' = blocks /\ pc' = "build"
           ELSE IF WriteBackRaises(blocks, corrected_skeleton)
           THEN blocks' = blocks /\ pc' = "error"
           ELSE /\ blocks' = _write_back_levels(blocks, corrected_skeleton)
                /\ pc' = "build"
    /\ UNCHANGED << content_list, repair_response, soft_limit, hard_limit,
                    llm_config, llm_response, tree, stack, i, llm_client,
                    chunks, results, nextId >>

-----------------------------------------------------------------------------
(* TreeBuilder *)

(* a root that counts as a titled section *)
RootSectionNode ==
    [ id |-> 0, type |-> "section", title |-> << "R" >>, level |-> Some(0),
      content |-> << >>, page_numbers |-> << >>, children |-> << >> ]

RootNode ==
    [ id |-> 0, type |-> "root", title |-> << "R" >>, level |-> Some(0),
      content |-> << >>, page_numbers |-> << >>, children |-> << >> ]

_create_section_node(block) ==
    [ id |-> block.id, type |-> "section", title |-> block.text,
      level |-> block.level, content |-> << >>,
      page_numbers |-> << block.page >>, children |-> << >> ]

_create_content_node(block) ==
    [ id |-> block.id, type |-> "content", title |-> None, level |-> None,
      content |-> block.text, page_numbers |-> << block.page >>,
      children |-> << >> ]

(* a header test that forgets "and block.level" *)
IsHeaderType(block) == block.type = "header"

IsSectionHeader(block) == block.type = "header" /\ Truthy(block.level)

(* a pop test with > in place of >= *)
MustPopStrict(top, block) ==
    Truthy(top.level) /\ top.level[1] > block.level[1]

MustPop(top, block) ==
    Truthy(top.level) /\ top.level[1] >= block.level[1]

RECURSIVE PopStack(_, _, _)
PopStack(t, stk, block) ==
    IF Len(stk) > 1 /\ MustPop(t[stk[Len(stk)]], block)
    THEN PopStack(t, SubSeq(stk, 1, Len(stk) - 1), block)
    ELSE stk

(* a child put in front of its siblings *)
AppendChildFront(kids, n) == << n >> \o kids

AppendChild(kids, n) == Append(kids, n)

(* tree with the new node n attached to parent *)
Attach(t, parent, n, node) ==
    [ k \in (DOMAIN t) \cup { n } |->
        IF k = n THEN node
        ELSE IF k = parent
             THEN [ t[k] EXCEPT !.children = AppendChild(@, n) ]
             ELSE t[k] ]


BuildHeader ==
    /\ UNCHANGED << pollVars, legacyVars >>
    /\ pc = "build"
    /\ i <= Len(blocks)
    /\ IsSectionHeader(blocks[i])
    /\ LET stk == PopStack(tree, stack, blocks[i])
           parent == stk[Len(stk)]
       IN  /\ tree' = Attach(tree, parent, i, _create_section_node(blocks[i]))
           /\ stack' = Append(stk, i)
    /\ i' = i + 1
    /\ UNCHANGED << content_list, repair_response, blocks, soft_limit,
                    hard_limit, llm_config, llm_response,
                    pc, llm_client, chunks, results, nextId >>

BuildContent ==
    /\ UNCHANGED << pollVars, legacyVars >>
    /\ pc = "build"
    /\ i <= Len(blocks)
    /\ ~ IsSectionHeader(blocks[i])
    /\ tree' = Attach(tree, stack[Len(stack)], i,
                      _create_content_node(blocks[i]))
    /\ i' = i + 1
    /\ UNCHANGED << content_list, repair_response, blocks, soft_limit,
                    hard_limit, llm_config, llm_response,
                    pc, stack, llm_client, chunks, results, nextId >>

BuildReturn ==
    /\ UNCHANGED << pollVars, legacyVars >>
    /\ pc = "build"
    /\ i > Len(blocks)
    /\ pc' = "chunk"
    /\ UNCHANGED << content_list, repair_response, blocks, soft_limit,
                    hard_limit, llm_config, llm_response,
                    tree, stack, i, llm_client, chunks, results, nextId >>

-----------------------------------------------------------------------------
(* TreeNode.get_total_tokens *)

RECURSIVE get_total_tokens(_, _)
RECURSIVE SumTokens(_, _)

get_total_tokens(t, n) ==
    (Len(t[n].content) \div CharsPerToken) + SumTokens(t, t[n].children)

SumTokens(t, kids) ==
    IF kids = << >> THEN 0
    ELSE get_total_tokens(t, kids[1]) + SumTokens(t, Tail(kids))

-----------------------------------------------------------------------------
(* DualThresholdChunker *)

(* a provider of "openai" or "anthropic" gives a client; a config without *)
(* the attribute provider raises inside the try and gives None; any other *)
(* provider takes no branch and leaves the attribute llm_client unset     *)
_init_llm_client(cfg) ==
    IF cfg \in { "openai", "anthropic" } THEN "client"
    ELSE IF cfg = "no_provider" THEN "none"
    ELSE "unset"

Construct ==
    /\ UNCHANGED << pollVars, legacyVars >>
    /\ pc = "new"
    /\ chunks' = << >>
    /\ llm_client' = IF llm_config = "None" THEN "none"
                     ELSE _init_llm_client(llm_config)
    /\ pc' = IF content_list = None THEN "build" ELSE "parse"
    /\ UNCHANGED << content_list, repair_response, blocks, soft_limit,
                    hard_limit, llm_config, llm_response, tree, stack, i,
                    results, nextId >>

Heading(title) == << "#", "#", Space >> \o title

RECURSIVE _collect_content(_, _)
RECURSIVE ChildParts(_, _)

_collect_content(t, n) ==
    LET node == t[n]
        head == IF node.type = "section" /\ node.title # << >>
                THEN << Heading(node.title) >> ELSE << >>
        own  == IF node.content # << >> THEN << node.content >> ELSE << >>
    IN  Join(head \o own \o ChildParts(t, node.children), BlankLine)

ChildParts(t, kids) ==
    IF kids = << >> THEN << >>
    ELSE LET c == _collect_content(t, kids[1])
         IN  (IF c # << >> THEN << c >> ELSE << >>)
             \o ChildParts(t, Tail(kids))

(* a Chunk before its uuid is drawn; via records the emitting code path   *)
(* and node the tree node whose _recursive_dfs call emitted it (-1 until   *)
(* that call is known)                                                     *)
NewChunk(content, hier, pages, via) ==
    [ content |-> content, section_hierarchy |-> hier, page_numbers |-> pages,
      chunk_index |-> 0, total_chunks |-> 0, via |-> via, node |-> -1 ]

(* the chunks cs, those not yet attributed being emitted by the call       *)
(* _recursive_dfs(n, ...)                                                  *)
EmittedAt(cs, n) ==
    [ j \in DOMAIN cs |->
        IF cs[j].node = -1 THEN [ cs[j] EXCEPT !.node = n ] ELSE cs[j] ]

_create_chunk(content, hier, pages, via) ==
    << NewChunk(content, hier, pages, via) >>

RECURSIVE SortedSeq(_)
SortedSeq(S) ==
    IF S = {} THEN << >>
    ELSE LET m == CHOOSE x \in S : \A y \in S : x <= y
         IN  << m >> \o SortedSeq(S \ { m })

Range(s) == { s[j] : j \in DOMAIN s }

(* a split that keeps the first window only *)
SimpleSplitFirstOnly(content, start, chunk_size, hier, pages) ==
    << NewChunk(Strip(Slice(content, start, start + chunk_size)), hier, pages,
                "fallback") >>

RECURSIVE SimpleSplitFrom(_, _, _, _, _)
SimpleSplitFrom(content, start, chunk_size, hier, pages) ==
    IF start >= Len(content) THEN << >>
    ELSE LET chunk_content == Strip(Slice(content, start, start + chunk_size))
         IN  (IF chunk_content # << >>
              THEN << NewChunk(chunk_content, hier, pages, "fallback") >>
              ELSE << >>)
             \o SimpleSplitFrom(content, start + chunk_size, chunk_size,
                                hier, pages)

(* range(0, len(content), chunk_size): a ValueError for a step of 0, which *)
(* leaves chunk_tree through every caller, and no window for a step < 0   *)
_simple_split(content, hier, pages) ==
    LET chunk_size == hard_limit * CharsPerToken
    IN  IF chunk_size = 0 THEN << NewChunk(<< >>, hier, pages, "raise") >>
        ELSE IF chunk_size < 0 THEN << >>
        ELSE SimpleSplitFrom(content, 0, chunk_size, hier, pages)

Clamp(p, n) == IF p < 0 THEN 0 ELSE IF p > n THEN n ELSE p

(* sorted, clamped, with 0 in front and len(content) at the end *)
SplitPoints(points, n) ==
    LET srt == SortSeq(points, LAMBDA a, b : a < b)
        clamped == [ j \in DOMAIN srt |-> Clamp(srt[j], n) ]
        front == IF clamped[1] # 0 THEN << 0 >> \o clamped ELSE clamped
    IN  IF front[Len(front)] # n THEN Append(front, n) ELSE front

RECURSIVE SegmentChunks(_, _, _, _, _)
SegmentChunks(content, pts, j, hier, pages) ==
    IF j >= Len(pts) THEN << >>
    ELSE LET sub_content == Strip(Slice(content, pts[j], pts[j + 1]))
         IN  (IF sub_content # << >>
              THEN << NewChunk(sub_content, hier, pages, "segment") >>
              ELSE << >>)
             \o SegmentChunks(content, pts, j + 1, hier, pages)

(* "if not self.llm_client" is an AttributeError, outside the try, when   *)
(* the attribute was never set                                             *)
_llm_split_large_content(content, hier, pages) ==
    IF llm_client = "unset" THEN << NewChunk(<< >>, hier, pages, "raise") >>
    ELSE IF llm_client # "client" THEN _simple_split(content, hier, pages)
    ELSE IF llm_response.kind # "points" \/ Len(llm_response.points) < 2
         THEN _simple_split(content, hier, pages)
         ELSE LET pts == SplitPoints(llm_response.points, Len(content))
                  subs == SegmentChunks(content, pts, 1, hier, pages)
              IN  IF subs # << >> THEN subs
                  ELSE _simple_split(content, hier, pages)

(* a pending buffer that is dropped in front of a large child *)
FlushPendingDropped(accumulated_content, accumulated_pages, hier) == << >>

(* the flush of the pending buffer in front of a large child *)
FlushPending(accumulated_content, accumulated_pages, hier) ==
    IF accumulated_content # << >>
    THEN _create_chunk(Join(accumulated_content, BlankLine), hier,
                       SortedSeq(accumulated_pages), "flush_large")
    ELSE << >>

(* a loop that buffers every child and flushes once at the end *)
ProcessLoopNoFlush(t, kids, hier, accumulated_content, accumulated_pages) ==
    _create_chunk(Join(accumulated_content
                         \o [ j \in DOMAIN kids |->
                                _collect_content(t, kids[j]) ],
                       BlankLine),
                  hier, SortedSeq(accumulated_pages), "flush_final")

(* a split test that also takes a leaf of exactly hard_limit tokens *)
IsOversizedInclusive(total_tokens) == total_tokens >= hard_limit

(* if total_tokens > self.config.hard_limit *)
IsOversized(total_tokens) == total_tokens > hard_limit

RECURSIVE _recursive_dfs(_, _, _)
RECURSIVE ProcessLoop(_, _, _, _, _)

_recursive_dfs(t, n, hier0) ==
    LET node == t[n]
        section_hierarchy ==
            IF node.type = "section" /\ node.title # << >>
            THEN Append(hier0, node.title) ELSE hier0
        total_tokens == get_total_tokens(t, n)
        content == _collect_content(t, n)
        emitted ==
            IF total_tokens < soft_limit
            THEN IF Strip(content) # << >>
                 THEN _create_chunk(content, section_hierarchy,
                                    node.page_numbers, "base")
                 ELSE << >>
            ELSE IF node.children # << >>
            THEN ProcessLoop(t, node.children, section_hierarchy, << >>, {})
            ELSE IF IsOversized(total_tokens)
            THEN _llm_split_large_content(content, section_hierarchy,
                                          node.page_numbers)
            ELSE IF Strip(content) # << >>
                 THEN _create_chunk(content, section_hierarchy,
                                    node.page_numbers, "leaf")
                 ELSE << >>
    IN  EmittedAt(emitted, n)

(* the loop of _process_children from the child kids[1] on, with the      *)
(* buffer accumulated_content / accumulated_pages                          *)
ProcessLoop(t, kids, hier, accumulated_content, accumulated_pages) ==
    IF kids = << >>
    THEN IF accumulated_content # << >>
            /\ Strip(Join(accumulated_content, BlankLine)) # << >>
         THEN _create_chunk(Join(accumulated_content, BlankLine), hier,
                            SortedSeq(accumulated_pages), "flush_final")
         ELSE << >>
    ELSE LET child == kids[1]
             child_tokens == get_total_tokens(t, child)
         IN  IF child_tokens < soft_limit
             THEN LET acc == Append(accumulated_content,
                                    _collect_content(t, child))
                      pages == accumulated_pages
                                 \cup Range(t[child].page_numbers)
                      accumulated_text == Join(acc, BlankLine)
                  IN  IF count_tokens(accumulated_text) >= soft_limit
                      THEN _create_chunk(accumulated_text, hier,
                                         SortedSeq(pages), "flush_loop")
                           \o ProcessLoop(t, Tail(kids), hier, << >>, {})
                      ELSE ProcessLoop(t, Tail(kids), hier, acc, pages)
             ELSE FlushPending(accumulated_content, accumulated_pages, hier)
                  \o _recursive_dfs(t, child, hier)
                  \o ProcessLoop(t, Tail(kids), hier, << >>, {})

_process_children(t, kids, hier) == ProcessLoop(t, kids, hier, << >>, {})

(* a chunk_tree that keeps the chunks of the previous call *)
ResetChunksKeep(old) == old

(* self.chunks = [] at the start of chunk_tree *)
ResetChunks(old) == << >>

(* the uuid4 chunk ids of the chunks created by one call *)
WithIds(new, first) ==
    [ j \in DOMAIN new |->
        [ chunk_id |-> first + j, content |-> new[j].content,
          section_hierarchy |-> new[j].section_hierarchy,
          page_numbers |-> new[j].page_numbers,
          chunk_index |-> new[j].chunk_index,
          total_chunks |-> new[j].total_chunks, via |-> new[j].via,
          node |-> new[j].node ] ]

(* chunks left with the index and count they were created with *)
UpdateIndicesStale(cs) == cs

(* for i, chunk in enumerate(self.chunks): 0-based index, final count *)
UpdateIndices(cs) ==
    [ j \in DOMAIN cs |->
        [ cs[j] EXCEPT !.chunk_index = j - 1, !.total_chunks = Len(cs) ] ]

(* the chunks appended to self.chunks before the traversal raised *)
BeforeRaise(cs) ==
    LET first == CHOOSE j \in DOMAIN cs :
                    /\ cs[j].via = "raise"
                    /\ \A k \in 1..(j - 1) : cs[k].via # "raise"
    IN  SubSeq(cs, 1, first - 1)

(* a traversal that detaches the children it has visited *)
TreeAfterTraversalPruned(t) ==
    [ n \in DOMAIN t |-> [ t[n] EXCEPT !.children = << >> ] ]

(* the tree after one call: _recursive_dfs, _process_children and          *)
(* _collect_content read the fields of a node and assign none; the lists   *)
(* they build (section_hierarchy + [...], accumulated_content, the set     *)
(* accumulated_pages) are new objects                                      *)
TreeAfterTraversal(t) == t

ChunkTree ==
    /\ UNCHANGED << pollVars, legacyVars >>
    /\ pc = "chunk"
    /\ LET traversal == _recursive_dfs(tree, 0, << >>)
       IN  IF \E j \in DOMAIN traversal : traversal[j].via = "raise"
           THEN LET created == WithIds(BeforeRaise(traversal), nextId)
                IN  /\ chunks' = ResetChunks(chunks) \o created
                    /\ nextId' = nextId + Len(created)
                    /\ pc' = "error"
                    /\ UNCHANGED results
           ELSE LET created == WithIds(traversal, nextId)
                    all == UpdateIndices(ResetChunks(chunks) \o created)
                IN  /\ chunks' = all
                    /\ results' = Append(results, all)
                    /\ nextId' = nextId + Len(created)
                    /\ pc' = IF Len(results) + 1 >= MaxRuns
                             THEN "done" ELSE "chunk"
    /\ tree' = TreeAfterTraversal(tree)
    /\ UNCHANGED << content_list, repair_response, blocks, soft_limit,
                    hard_limit, llm_config, llm_response,
                    stack, i, llm_client >>

-----------------------------------------------------------------------------
(* MinerUParser._poll_extract_results_batch and MinerUParser.parse *)

(* a string of a status response: text is the string stripped and in      *)
(* lower case; upper and padded tell whether it was written with capital  *)
(* letters and with whitespace around it                                  *)
Str(text) == [ text |-> text, upper |-> FALSE, padded |-> FALSE ]

PaddedUpper(text) == [ text |-> text, upper |-> TRUE, padded |-> TRUE ]

(* Python truthiness of an optional string: None and "" are false *)
TruthyStr(v) == v # None /\ (v[1].text # "" \/ v[1].padded)

(* a or b *)
Or(a, b) == IF TruthyStr(a) THEN a ELSE b

(* str(v).strip().lower() *)
StripLower(v) == v[1].text

(* one object of the list "data" of a status response; a key that is      *)
(* absent is None                                                          *)
RawItem(state, status, full_zip_url, zip_url, data_id) ==
    [ state |-> state, status |-> status, full_zip_url |-> full_zip_url,
      zip_url |-> zip_url, data_id |-> data_id ]

_MinerUBatchItem(state, full_zip_url, data_id) ==
    [ state |-> state, full_zip_url |-> full_zip_url, data_id |-> data_id ]

(* the items of data, an empty sequence where the code raises because     *)
(* data holds no object                                                    *)
_normalize_batch_items(data) ==
    IF data = None THEN << >>
    ELSE [ k \in DOMAIN data[1] |->
             LET raw == data[1][k]
             IN  _MinerUBatchItem(
                     StripLower(Or(Or(raw.state, raw.status), Some(Str("")))),
                     Or(Or(raw.full_zip_url, raw.zip_url), None),
                     raw.data_id) ]

_choose_batch_item(items, data_id) ==
    IF \E k \in DOMAIN items : items[k].data_id = Some(data_id)
    THEN items[CHOOSE k \in DOMAIN items :
                   /\ items[k].data_id = Some(data_id)
                   /\ \A j \in 1..(k - 1) : items[j].data_id # Some(data_id)]
    ELSE items[1]

(* pdf_file.stem, the data_id sent with the upload *)
DataId == "doc"

(* what requests.get gives: an exception (exc), or a response with a       *)
(* status code whose body is no JSON (json FALSE) or is the object         *)
(* {"code": code, "data": data}                                            *)
Response(exc, status_code, json, code, data) ==
    [ exc |-> exc, status_code |-> status_code, json |-> json, code |-> code,
      data |-> data ]

Continue == [ kind |-> "continue" ]
Raise(error) == [ kind |-> "raise", error |-> error ]
Return(item) == [ kind |-> "return", item |-> item ]

(* the exceptions of the except clause *)
RetriedExceptions == { "Timeout", "ConnectionError" }

(* the tests of the status code and response.raise_for_status() *)
StatusError(status_code) ==
    IF status_code \in { 401, 403 } THEN "auth"
    ELSE IF status_code = 404 THEN "not_found"
    ELSE IF status_code >= 400 THEN "http_error"
    ELSE "none"

(* in-progress states that count a failed task among them *)
InProgressStatesWithFailed ==
    { "pending", "running", "converting", "processing", "failed" }

InProgressStates == { "pending", "running", "converting", "processing" }
FailedStates == { "failed", "error" }
DoneStates == { "done", "completed" }

(* one pass of the loop body on what requests.get gave *)
AttemptOutcome(r) ==
    IF r.exc \in RetriedExceptions THEN Continue
    ELSE IF r.exc # "none" THEN Raise("request")
    ELSE IF StatusError(r.status_code) # "none"
    THEN Raise(StatusError(r.status_code))
    ELSE IF ~ r.json THEN Raise("json")
    ELSE IF r.code # 0 THEN Raise("api_code")
    ELSE LET items == _normalize_batch_items(r.data)
         IN  IF items = << >> THEN Raise("no_items")
             ELSE LET chosen == _choose_batch_item(items, DataId)
                  IN  IF chosen.state \in InProgressStates THEN Continue
                      ELSE IF chosen.state \in FailedStates
                      THEN Raise("failed")
                      ELSE IF chosen.state \in DoneStates
                      THEN Return(_MinerUBatchItem("done",
                                                   chosen.full_zip_url,
                                                   chosen.data_id))
                      ELSE Raise("unknown_state")

(* a loop that runs once more than max_poll_attempts *)
LoopContinuesInclusive(n) == n <= max_poll_attempts

(* for attempt in range(self.config.max_poll_attempts) *)
LoopContinues(n) == n < max_poll_attempts

Failure(exc) == Response(exc, 0, FALSE, 0, None)
HttpStatus(status_code) == Response("none", status_code, FALSE, 0, None)
Body(code, data) == Response("none", 200, TRUE, code, data)

Url == Some(Str("https://cdn/result.zip"))

(* an item of the uploaded file with the key state *)
OwnItem(state, full_zip_url) ==
    RawItem(Some(state), None, full_zip_url, None, Some(DataId))

(* an item of another file of the batch *)
OtherItem(state, full_zip_url) ==
    RawItem(Some(state), None, full_zip_url, None, Some("other"))

ItemStates ==
    { "pending", "running", "converting", "processing", "failed", "error",
      "done", "completed", "waiting-file", "" }

(* what the status request can meet *)
Responses ==
    { Failure(e) : e \in { "Timeout", "ConnectionError", "TooManyRedirects" } }
    \cup { HttpStatus(c) : c \in { 401, 403, 404, 500 } }
    \cup { Response("none", 200, FALSE, 0, None),
           Body(-1, None), Body(0, None), Body(0, Some(<< >>)) }
    \cup { Body(0, Some(<< OwnItem(Str(s), u) >>)) :
             s \in ItemStates, u \in { None, Url } }
    \cup { Body(0, Some(<< OwnItem(PaddedUpper("done"), Url) >>)),
           Body(0, Some(<< RawItem(None, Some(Str("done")), None, Url,
                                   Some(DataId)) >>)),
           Body(0, Some(<< RawItem(None, None, Url, None,
                                   Some(DataId)) >>)),
           Body(0, Some(<< OtherItem(Str("done"), Url),
                           OwnItem(Str("running"), None) >>)),
           Body(0, Some(<< OtherItem(Str("failed"), None),
                           OtherItem(Str("done"), Url) >>)) }

(* parse calls _poll_extract_results_batch *)
StartPolling ==
    /\ poll_pc = "parse"
    /\ poll_pc' = "polling"
    /\ attempt' = 0
    /\ UNCHANGED << max_poll_attempts, responses, poll_error, batch_item >>
    /\ UNCHANGED << coreVars, legacyVars >>

(* one pass of the polling loop: a status request and what follows from it *)
PollAttempt ==
    /\ poll_pc = "polling"
    /\ LoopContinues(attempt)
    /\ \E r \in Responses :
        LET outcome == AttemptOutcome(r)
        IN  /\ responses' = Append(responses, r)
            /\ attempt' = attempt + 1
            /\ poll_pc' = IF outcome.kind = "continue" THEN "polling"
                          ELSE IF outcome.kind = "raise" THEN "raised"
                          ELSE "returned"
            /\ poll_error' = IF outcome.kind = "raise"
                             THEN Some(outcome.error) ELSE None
            /\ batch_item' = IF outcome.kind = "return"
                             THEN Some(outcome.item) ELSE None
    /\ UNCHANGED max_poll_attempts
    /\ UNCHANGED << coreVars, legacyVars >>

(* the loop has run out: the polling-timeout RuntimeError *)
PollExhausted ==
    /\ poll_pc = "polling"
    /\ ~ LoopContinues(attempt)
    /\ poll_pc' = "raised"
    /\ poll_error' = Some("poll_timeout")
    /\ UNCHANGED << max_poll_attempts, attempt, responses, batch_item >>
    /\ UNCHANGED << coreVars, legacyVars >>

(* the two tests of parse on the item returned by the polling *)
CheckBatchItem ==
    /\ poll_pc = "returned"
    /\ IF batch_item[1].state # "done"
       THEN poll_pc' = "raised" /\ poll_error' = Some("not_done")
       ELSE IF ~ TruthyStr(batch_item[1].full_zip_url)
       THEN poll_pc' = "raised" /\ poll_error' = Some("no_zip_url")
       ELSE poll_pc' = "download" /\ UNCHANGED poll_error
    /\ UNCHANGED << max_poll_attempts, attempt, responses, batch_item >>
    /\ UNCHANGED << coreVars, legacyVars >>

(* the download of the zip and the construction of the Document, or an    *)
(* exception of the download                                               *)
BuildDocument ==
    /\ poll_pc = "download"
    /\ \E ok \in BOOLEAN :
        IF ok THEN poll_pc' = "document" /\ UNCHANGED poll_error
        ELSE poll_pc' = "raised" /\ poll_error' = Some("download")
    /\ UNCHANGED << max_poll_attempts, attempt, responses, batch_item >>
    /\ UNCHANGED << coreVars, legacyVars >>

(* no parse is under way *)
PollIdle ==
    /\ max_poll_attempts = 1
    /\ attempt = 0
    /\ responses = << >>
    /\ poll_pc = "idle"
    /\ poll_error = None
    /\ batch_item = None

-----------------------------------------------------------------------------
(* SemanticChunker._chunk_raw_text (core/semantic_chunker.py) *)

(* text[a:b] with Python's negative and out-of-range indices *)
PyIndex(x, n) ==
    IF x < 0 THEN (IF x + n < 0 THEN 0 ELSE x + n)
    ELSE IF x > n THEN n ELSE x

PySlice(s, a, b) ==
    IF PyIndex(a, Len(s)) >= PyIndex(b, Len(s)) THEN << >>
    ELSE SubSeq(s, PyIndex(a, Len(s)) + 1, PyIndex(b, Len(s)))

(* window.rfind(delimiter): the highest 0-based position, else -1 *)
RFind(window, delimiter) ==
    LET hits == { k \in 0..(Len(window) - Len(delimiter)) :
                    SubSeq(window, k + 1, k + Len(delimiter)) = delimiter }
    IN  IF hits = {} THEN -1
        ELSE CHOOSE k \in hits : \A j \in hits : j <= k

Delimiters ==
    << << ".", Space >>, << ".", Newline >>, << "!", Space >>,
       << "?", Newline >> >>

(* the end of the window after the search for a sentence boundary: the    *)
(* first delimiter of the list whose last position is > min_chunk_size    *)
SentenceEnd(text, from, end) ==
    LET window == PySlice(text, from, end)
        found == { d \in DOMAIN Delimiters :
                     RFind(window, Delimiters[d]) > min_chunk_size }
    IN  IF end >= Len(text) \/ found = {} THEN end
        ELSE LET d == CHOOSE x \in found : \A y \in found : x <= y
             IN  from + RFind(window, Delimiters[d]) + Len(Delimiters[d])

(* start = end - overlap_size if overlap_size > 0 else end *)
NextStart(end) == IF overlap_size > 0 THEN end - overlap_size ELSE end

(* one pass of the while loop *)
ChunkRawTextStep ==
    /\ legacy_pc = "loop"
    /\ chunk_start < Len(raw_text)
    /\ Len(raw_chunks) < MaxRawChunks
    /\ chunk_start > - MaxTextLen
    /\ LET end == SentenceEnd(raw_text, chunk_start,
                              chunk_start + max_chunk_size)
           chunk_text == Strip(PySlice(raw_text, chunk_start, end))
       IN  /\ raw_chunks' = IF Len(chunk_text) >= min_chunk_size
                            THEN Append(raw_chunks, chunk_text)
                            ELSE raw_chunks
           /\ chunk_start' = NextStart(end)
    /\ UNCHANGED << raw_text, max_chunk_size, min_chunk_size, overlap_size,
                    legacy_pc >>
    /\ UNCHANGED << coreVars, pollVars >>

(* the loop test fails: return chunks *)
ChunkRawTextReturn ==
    /\ legacy_pc = "loop"
    /\ chunk_start >= Len(raw_text)
    /\ legacy_pc' = "returned"
    /\ UNCHANGED << raw_text, max_chunk_size, min_chunk_size, overlap_size,
                    chunk_start, raw_chunks >>
    /\ UNCHANGED << coreVars, pollVars >>

(* the legacy chunker is not running *)
LegacyIdle ==
    /\ raw_text = << >>
    /\ max_chunk_size = 1
    /\ min_chunk_size = 1
    /\ overlap_size = 0
    /\ chunk_start = 0
    /\ raw_chunks = << >>
    /\ legacy_pc = "idle"

-----------------------------------------------------------------------------
(* Inputs *)

Materialize(shape, c) == [ j \in DOMAIN shape |->
                             IF shape[j] = "x" THEN c ELSE shape[j] ]

X(n) == Rep("x", n)

(* the oversized text: blanks on both sides of the 8- and 12-character     *)
(* window borders                                                          *)
LongText == X(7) \o << Space, Space >> \o X(2) \o << Space, Space >> \o X(3)

TextShapes == { << >>, << Space >>, X(3), X(7), X(8), LongText }

TitleShapes == { X(1) }

HeaderChoices(levels, titles) ==
    [ type : { "header" }, shape : titles, level : levels ]

TextChoices(texts) ==
    [ type : { "text" }, shape : texts, level : { None } ]

MakeBlocks(c) ==
    [ k \in DOMAIN c |->
        Block(k, c[k].type,
              Materialize(c[k].shape,
                          IF c[k].type = "header" THEN TitleLetter[k]
                          ELSE Letter[k]),
              c[k].level, k) ]

BlockSeqs(maxn, choices) ==
    UNION { { MakeBlocks(c) : c \in [ 1..n -> choices ] } : n \in 0..maxn }

Limits(s, h) == [ soft |-> s, hard |-> h ]

ValidLimitChoices == { Limits(1, 2), Limits(2, 3) }

LimitChoices == { Limits(2, 3), Limits(3, 2), Limits(0, 0), Limits(0, -1) }

ErrorResponse == [ kind |-> "error", points |-> << >> ]
PointsResponse(p) == [ kind |-> "points", points |-> p ]

NoLlm == [ config |-> "None", response |-> ErrorResponse ]

LlmChoices ==
    { [ config |-> c, response |-> ErrorResponse ] :
        c \in { "None", "no_provider", "openai" } }
    \cup
    { [ config |-> "openai", response |-> PointsResponse(p) ] :
        p \in { << 12, 4 >>, << -1, 99 >> } }

(* the repair request raised, or its answer is not a JSON list of         *)
(* {"index", "level"} objects                                              *)
RepairFailed == [ kind |-> "error", levels |-> << >> ]

(* a JSON list of {"index", "level"} objects *)
RepairLevels(entries) == [ kind |-> "levels", levels |-> entries ]

Entry(index, level, valid) ==
    [ index |-> index, level |-> level, valid |-> valid ]

InitWith(blockSeqs, limits, llms) ==
    /\ blocks \in blockSeqs
    /\ \E l \in limits : soft_limit = l.soft /\ hard_limit = l.hard
    /\ \E m \in llms : llm_config = m.config /\ llm_response = m.response
    /\ content_list = None
    /\ repair_response = RepairFailed
    /\ pc = "new"
    /\ tree = (0 :> RootNode)
    /\ stack = << 0 >>
    /\ i = 1
    /\ llm_client = "unset"
    /\ chunks = << >>
    /\ results = << >>
    /\ nextId = 0
    /\ PollIdle
    /\ LegacyIdle

Levels == { None } \cup { Some(l) : l \in 1..MaxLevel }

(* every block list under valid limits, without a language model *)
InitChunking ==
    InitWith(BlockSeqs(MaxBlocks,
                       HeaderChoices(Levels, TitleShapes)
                         \cup TextChoices(TextShapes)),
             ValidLimitChoices, { NoLlm })

(* every configuration of limits and language model on simpler block lists *)
InitConfigured ==
    InitWith(BlockSeqs(MaxBlocks,
                       HeaderChoices({ Some(1) }, TitleShapes)
                         \cup TextChoices({ << Space >>, X(3), X(7),
                                            LongText })),
             LimitChoices, LlmChoices)

(* the worked scenarios: a two-level document, a section of five equal    *)
(* paragraphs, and single oversized paragraphs                             *)
ScenarioA ==
    << Block(1, "header", << "A" >>, Some(1), 1),
       Block(2, "text", Rep("x", 50), None, 2),
       Block(3, "header", << "A", ".", "1" >>, Some(2), 3),
       Block(4, "text", Rep("y", 50), None, 4) >>

ScenarioD ==
    << Block(1, "header", << "S" >>, Some(1), 1) >>
    \o [ k \in 1..5 |-> Block(k + 1, "text", Rep(Letter[k + 1], 120), None,
                              k + 1) ]

LeafTexts ==
    { X(24), X(17), X(8) \o Rep(Space, 8) \o X(8), Rep(Space, 8) }

ScenarioLeaf == { << Block(1, "text", t, None, 1) >> : t \in LeafTexts }

ScenarioLimits ==
    { Limits(1, 2), Limits(2, 4), Limits(24, 30), Limits(25, 30),
      Limits(100, 200) }

(* a config object whose provider is neither "openai" nor "anthropic" *)
OtherProvider == [ config |-> "azure", response |-> ErrorResponse ]

(* documents of three blocks with titled and untitled sections *)
ScenarioTitles ==
    { MakeBlocks(c) :
        c \in [ 1..3 -> HeaderChoices({ Some(1) }, { X(1) })
                          \cup HeaderChoices({ Some(2) }, { << >> })
                          \cup TextChoices({ X(8) }) ] }

(* a section nested in a section, followed by a section of level 1 or 2 *)
ScenarioNested ==
    { MakeBlocks(<< [ type |-> "header", shape |-> X(1), level |-> Some(1) ],
                    [ type |-> "header", shape |-> X(1), level |-> Some(2) ],
                    [ type |-> "text", shape |-> X(8), level |-> None ],
                    [ type |-> "header", shape |-> X(1), level |-> Some(l) ],
                    [ type |-> "text", shape |-> X(8), level |-> None ] >>) :
        l \in 1..2 }

InitScenario ==
    InitWith({ ScenarioA, ScenarioD } \cup ScenarioLeaf \cup ScenarioTitles
               \cup ScenarioNested,
             ScenarioLimits, { NoLlm, OtherProvider })

(* a document without blocks under every pair of limits, without a        *)
(* language model and with a provider that leaves the client unset        *)
InitEmpty ==
    InitWith({ << >> }, ValidLimitChoices \cup LimitChoices,
             { NoLlm, OtherProvider })

Init == InitChunking \/ InitConfigured \/ InitScenario \/ InitEmpty

(* the tree builder on longer block lists and every header level *)
TreeLevels ==
    { None, Some(-1) } \cup { Some(l) : l \in 1..HeaderLevelMax }

InitTree ==
    InitWith(BlockSeqs(MaxTreeBlocks,
                       HeaderChoices(TreeLevels, TitleShapes)
                         \cup TextChoices({ X(3) })),
             { Limits(2, 3) }, { NoLlm })

(* the items MinerU can list: a running header, headings of level 1 and   *)
(* 2, a text with text_level 0, a paragraph, a table                       *)
ItemChoices ==
    { Item("header", X(1), None, 0), Item("text", X(1), Some(1), 0),
      Item("text", X(1), Some(2), 0), Item("text", X(1), Some(0), 0),
      Item("text", X(8), None, 1), Item("table", X(3), None, 1) }

ContentLists ==
    UNION { [ 1..n -> ItemChoices ] : n \in 0..MaxItems }

(* answers to the repair request: none, an empty list, new levels, a JSON  *)
(* null, a 0, a level for a header that does not exist, a string that is   *)
(* no number                                                               *)
RepairChoices ==
    { RepairFailed, RepairLevels(<< >>),
      RepairLevels(<< Entry(0, Some(2), TRUE), Entry(1, Some(1), TRUE) >>),
      RepairLevels(<< Entry(0, None, TRUE) >>),
      RepairLevels(<< Entry(1, Some(0), TRUE) >>),
      RepairLevels(<< Entry(5, Some(1), TRUE) >>),
      RepairLevels(<< Entry(0, Some(1), TRUE), Entry(0, None, FALSE) >>) }

(* a run of the pipeline on a content_list *)
InitPipeline ==
    /\ content_list \in { Some(c) : c \in ContentLists }
    /\ repair_response \in RepairChoices
    /\ blocks = << >>
    /\ soft_limit = 2
    /\ hard_limit = 3
    /\ llm_config = NoLlm.config
    /\ llm_response = NoLlm.response
    /\ pc = "new"
    /\ tree = (0 :> RootNode)
    /\ stack = << 0 >>
    /\ i = 1
    /\ llm_client = "unset"
    /\ chunks = << >>
    /\ results = << >>
    /\ nextId = 0
    /\ PollIdle
    /\ LegacyIdle

Next ==
    \/ Construct
    \/ BuildHeader
    \/ BuildContent
    \/ BuildReturn
    \/ ChunkTree

Spec == Init /\ [][Next]_vars

SpecTree == InitTree /\ [][Next]_vars

(* Paper2ChunkPipeline.process: parse, repair, build, chunk *)
NextPipeline ==
    \/ Construct
    \/ ConvertContentList
    \/ RepairHierarchy
    \/ BuildHeader
    \/ BuildContent
    \/ BuildReturn
    \/ ChunkTree

SpecPipeline == InitPipeline /\ [][NextPipeline]_vars

(* the core is not running *)
CoreIdle ==
    /\ content_list = None
    /\ repair_response = RepairFailed
    /\ blocks = << >>
    /\ soft_limit = 2
    /\ hard_limit = 3
    /\ llm_config = NoLlm.config
    /\ llm_response = NoLlm.response
    /\ pc = "idle"
    /\ tree = (0 :> RootNode)
    /\ stack = << 0 >>
    /\ i = 1
    /\ llm_client = "unset"
    /\ chunks = << >>
    /\ results = << >>
    /\ nextId = 0

(* MinerUParser.parse after the upload, for every max_poll_attempts that  *)
(* MinerUConfig accepts up to the bound                                   *)
InitPolling ==
    /\ max_poll_attempts \in 1..MaxPollAttempts
    /\ attempt = 0
    /\ responses = << >>
    /\ poll_pc = "parse"
    /\ poll_error = None
    /\ batch_item = None
    /\ CoreIdle
    /\ LegacyIdle

NextPolling ==
    \/ StartPolling
    \/ PollAttempt
    \/ PollExhausted
    \/ CheckBatchItem
    \/ BuildDocument

SpecPolling == InitPolling /\ [][NextPolling]_vars

(* every status request returns or raises (timeout=30) and every sleep    *)
(* ends, so that a step that can be taken is taken                        *)
SpecPollingFair == SpecPolling /\ WF_vars(NextPolling)

RawTexts ==
    UNION { [ 1..n -> { "a", ".", Space } ] : n \in 0..MaxTextLen }

(* _chunk_raw_text on every text and every ChunkingConfig up to the       *)
(* bounds: max_chunk_size >= 1, min_chunk_size >= 1, overlap_size >= 0    *)
InitLegacy ==
    /\ raw_text \in RawTexts
    /\ max_chunk_size \in 1..MaxChunkSize
    /\ min_chunk_size \in 1..2
    /\ overlap_size \in 0..MaxOverlap
    /\ chunk_start = 0
    /\ raw_chunks = << >>
    /\ legacy_pc = "loop"
    /\ CoreIdle
    /\ PollIdle

NextLegacy ==
    \/ ChunkRawTextStep
    \/ ChunkRawTextReturn

SpecLegacy == InitLegacy /\ [][NextLegacy]_vars

-----------------------------------------------------------------------------
(* Properties *)

Built == pc \in { "chunk", "done" }

ValidLimits == 0 < soft_limit /\ soft_limit < hard_limit

Kids(t, p) == Range(t[p].children)

ParentOf(t, n) == CHOOSE p \in DOMAIN t : n \in Kids(t, p)

HasLevel(block) == block.type = "header" /\ block.level # None

HeaderLevelsInRange ==
    \A k \in DOMAIN blocks :
        HasLevel(blocks[k]) => blocks[k].level[1] \in 1..HeaderLevelMax

SectionKids(t, p) == { c \in Kids(t, p) : t[c].type = "section" }

(* C1: when every header level lies in 1..4, every section node of the     *)
(* tree returned by build_tree has a level strictly greater than the level *)
(* of its parent, the root counting as level 0.                            *)
C1_LevelAboveParent ==
    (Built /\ HeaderLevelsInRange) =>
        \A p \in DOMAIN tree : \A c \in SectionKids(tree, p) :
            /\ tree[p].level # None
            /\ tree[c].level[1] > tree[p].level[1]

(* a built tree with a section nested in a section and a later section     *)
(* promoted back under the root                                            *)
C1_Witness ==
    /\ Built
    /\ HeaderLevelsInRange
    /\ \E a, b \in SectionKids(tree, 0) :
        a < b /\ SectionKids(tree, a) # {}

RECURSIVE PreOrder(_, _)
RECURSIVE PreOrderAll(_, _)

PreOrder(t, n) == << n >> \o PreOrderAll(t, t[n].children)

PreOrderAll(t, kids) ==
    IF kids = << >> THEN << >>
    ELSE PreOrder(t, kids[1]) \o PreOrderAll(t, Tail(kids))

(* C7: build_tree makes exactly one node per block, with the block's id,   *)
(* and a pre-order depth-first walk of the tree, root excluded, visits the *)
(* nodes in the order of their source blocks.                              *)
C7_PreOrderIsBlockOrder ==
    LET walk == Tail(PreOrder(tree, 0))
    IN  /\ Cardinality(DOMAIN tree) = i
        /\ Len(walk) = i - 1
        /\ \A k \in 1..(i - 1) : tree[walk[k]].id = blocks[k].id

(* a built tree in which a section and the root both hold several children *)
C7_Witness ==
    /\ Built
    /\ Len(tree[0].children) >= 2
    /\ \E p \in SectionKids(tree, 0) : Len(tree[p].children) >= 2

NoHigherEarlierSibling ==
    \A p \in DOMAIN tree : \A a, b \in SectionKids(tree, p) :
        a < b => tree[a].level[1] <= tree[b].level[1]

SectionLevels ==
    LET hs == SelectSeq(blocks, IsSectionHeader)
    IN  [ j \in DOMAIN hs |-> hs[j].level[1] ]

(* no header steps down more than one level: the first header has level 1  *)
(* and each later one is at most one level below the header before it      *)
SkipsNoLevel ==
    \A j \in DOMAIN SectionLevels :
        SectionLevels[j] <= (IF j = 1 THEN 0 ELSE SectionLevels[j - 1]) + 1

(* C8 as stated: for header levels in 1..4, no section node has an earlier *)
(* sibling section whose level number is higher than its own.              *)
C8_NoHigherEarlierSibling ==
    (Built /\ HeaderLevelsInRange) => NoHigherEarlierSibling

(* C8 amended: the same for header level sequences that skip no level.     *)
C8_NoHigherEarlierSiblingNoSkip ==
    (Built /\ HeaderLevelsInRange /\ SkipsNoLevel) => NoHigherEarlierSibling

(* levels 1, 2, 1: the third header is promoted to a sibling of the first  *)
C8_Witness ==
    /\ Built
    /\ HeaderLevelsInRange
    /\ SkipsNoLevel
    /\ \E a, b \in SectionKids(tree, 0) :
        a < b /\ SectionKids(tree, a) # {}
    /\ \E p \in SectionKids(tree, 0) : Cardinality(SectionKids(tree, p)) >= 2

SameLevelRun(a, b) ==
    /\ a < b
    /\ IsSectionHeader(blocks[a])
    /\ IsSectionHeader(blocks[b])
    /\ blocks[a].level = blocks[b].level
    /\ \A k \in (a + 1)..(b - 1) :
        HasLevel(blocks[k]) => blocks[k].level[1] >= blocks[a].level[1]

(* C9: two headers of the same level L with no header of a level below L   *)
(* between them become sibling sections under the same parent.             *)
C9_SameLevelSiblings ==
    Built =>
        \A a, b \in DOMAIN blocks :
            SameLevelRun(a, b) => ParentOf(tree, a) = ParentOf(tree, b)

(* two headers of one level with a deeper header between them              *)
C9_Witness ==
    /\ Built
    /\ \E a, b \in DOMAIN blocks :
        /\ SameLevelRun(a, b)
        /\ \E k \in (a + 1)..(b - 1) :
            /\ IsSectionHeader(blocks[k])
            /\ blocks[k].level[1] > blocks[a].level[1]
        /\ ParentOf(tree, a) = ParentOf(tree, b)

(* C10: a block without a level, a header without a level included, is     *)
(* made a content node appended to the current stack top, and the stack    *)
(* is left as it was.                                                      *)
C10_NoLevelIsContent ==
    [][ (pc = "build" /\ i <= Len(blocks) /\ blocks[i].level = None) =>
          /\ stack' = stack
          /\ i' = i + 1
          /\ i \in DOMAIN tree'
          /\ tree'[i].type = "content"
          /\ tree'[stack[Len(stack)]].children
               = Append(tree[stack[Len(stack)]].children, i) ]_vars

(* a header without a level that became a content node inside a section    *)
C10_Witness ==
    /\ Built
    /\ \E k \in DOMAIN blocks :
        /\ blocks[k].type = "header"
        /\ blocks[k].level = None
        /\ tree[k].type = "content"
        /\ ParentOf(tree, k) # 0
        /\ k \notin Range(stack)

-----------------------------------------------------------------------------
(* Properties of the chunk list *)

HeadingMark == << "#", "#", Space >>

IsHeadingLine(piece) ==
    Len(piece) >= Len(HeadingMark)
    /\ SubSeq(piece, 1, Len(HeadingMark)) = HeadingMark

(* the pieces of a text between its blank-line separators *)
RECURSIVE SplitBlank(_, _)
SplitBlank(s, cur) ==
    IF s = << >> THEN << cur >>
    ELSE IF Len(s) >= 2 /\ s[1] = Newline /\ s[2] = Newline
    THEN << cur >> \o SplitBlank(SubSeq(s, 3, Len(s)), << >>)
    ELSE SplitBlank(Tail(s), Append(cur, s[1]))

RECURSIVE Concat(_)
Concat(seqs) ==
    IF seqs = << >> THEN << >> ELSE seqs[1] \o Concat(Tail(seqs))

(* a chunk's content without heading lines and separators *)
BodyOf(content) ==
    Concat(SelectSeq(SplitBlank(content, << >>),
                     LAMBDA piece : ~ IsHeadingLine(piece)))

Extracted(r) == Concat([ j \in DOMAIN r |-> BodyOf(r[j].content) ])

(* the texts of the content blocks, in block order *)
ContentText ==
    Concat([ k \in DOMAIN blocks |->
               IF blocks[k].type = "header" /\ Truthy(blocks[k].level)
               THEN << >> ELSE blocks[k].text ])

NonBlank(s) == SelectSeq(s, LAMBDA c : c \notin Whitespace)

(* C2 as stated: the chunk contents, heading lines and separators removed, *)
(* reproduce the text of every content block exactly once and in order.    *)
C2_TextReproduced ==
    ValidLimits =>
        \A n \in DOMAIN results : Extracted(results[n]) = ContentText

(* C2 amended: for a hard_limit of at least 1 they reproduce the           *)
(* non-whitespace characters of every content block exactly once and in   *)
(* order.                                                                  *)
C2_NonBlankTextReproduced ==
    hard_limit >= 1 =>
        \A n \in DOMAIN results :
            NonBlank(Extracted(results[n])) = NonBlank(ContentText)

(* a chunk list of several chunks, fixed-size windows among them, that     *)
(* lost whitespace of a block and follows a flushed buffer                 *)
C2_Witness ==
    /\ ValidLimits
    /\ \E n \in DOMAIN results :
        /\ Extracted(results[n]) # ContentText
        /\ \E a, b \in DOMAIN results[n] :
            /\ a < b
            /\ results[n][a].via = "flush_large"
            /\ results[n][b].via = "fallback"

MergeVias == { "flush_loop", "flush_large", "flush_final" }

(* C3: with 0 < soft_limit < hard_limit, every chunk emitted by a buffer   *)
(* flush of _process_children has a token size of at most hard_limit.      *)
C3_MergeChunksWithinHardLimit ==
    ValidLimits =>
        \A n \in DOMAIN results : \A j \in DOMAIN results[n] :
            results[n][j].via \in MergeVias =>
                count_tokens(results[n][j].content) <= hard_limit

(* C4: in every list returned by chunk_tree the chunk at position i has    *)
(* chunk_index i, counted from 0, and total_chunks is the list's length.   *)
C4_IndicesRunFromZero ==
    \A n \in DOMAIN results : \A j \in DOMAIN results[n] :
        /\ results[n][j].chunk_index = j - 1
        /\ results[n][j].total_chunks = Len(results[n])

(* a returned list with segmenter chunks behind another chunk              *)
C4_Witness ==
    \E n \in DOMAIN results : \E a, b \in DOMAIN results[n] :
        /\ a < b
        /\ results[n][a].via \in MergeVias
        /\ results[n][b].via = "segment"
        /\ b < Len(results[n])

SameChunks(r1, r2) ==
    /\ Len(r1) = Len(r2)
    /\ \A j \in DOMAIN r1 :
        /\ r1[j].content = r2[j].content
        /\ r1[j].section_hierarchy = r2[j].section_hierarchy
        /\ r1[j].page_numbers = r2[j].page_numbers

ChunkIds(r) == { r[j].chunk_id : j \in DOMAIN r }

(* C5: two calls of chunk_tree on the same chunker and tree return the     *)
(* same number of chunks with the same content, section_hierarchy and      *)
(* pages in the same order, and no chunk of one call is in the other list. *)
C5_RunsAgree ==
    \A m, n \in DOMAIN results :
        m < n =>
            /\ SameChunks(results[m], results[n])
            /\ ChunkIds(results[m]) \cap ChunkIds(results[n]) = {}

(* two calls that each returned several chunks *)
C5_Witness ==
    /\ Len(results) >= 2
    /\ Len(results[1]) >= 2
    /\ Len(results[2]) >= 2

(* C6: a chunker whose limits violate 0 < soft_limit < hard_limit is never *)
(* constructed, so chunk_tree never runs with such limits.                 *)
C6_InvalidLimitsRejected ==
    ~ ValidLimits => (pc = "new" /\ results = << >>)

-----------------------------------------------------------------------------
(* Properties of malformed input *)

LevellessHeaders ==
    { k \in DOMAIN blocks :
        blocks[k].type = "header" /\ blocks[k].level = None }

(* C11 as stated: for a block list that holds a header without a level,   *)
(* build_tree returns no tree and chunk_tree returns no chunk list.        *)
C11_LevellessHeaderRejected ==
    LevellessHeaders # {} => (~ Built /\ results = << >>)

(* C11 amended: a header without a level does not stop build_tree; every   *)
(* step of its loop can be taken and the block becomes a content node of   *)
(* the tree it returns.                                                    *)
C11_LevellessHeaderAccepted ==
    LevellessHeaders # {} =>
        /\ pc = "build" => ENABLED (BuildHeader \/ BuildContent \/ BuildReturn)
        /\ \A k \in LevellessHeaders :
            k < i => k \in DOMAIN tree /\ tree[k].type = "content"

(* a tree and two chunk lists returned for a block list whose header       *)
(* without a level follows a section                                       *)
C11_Witness ==
    /\ pc = "done"
    /\ Len(results) = MaxRuns
    /\ results[1] # << >>
    /\ \E k \in LevellessHeaders :
        /\ tree[k].type = "content"
        /\ ParentOf(tree, k) # 0

-----------------------------------------------------------------------------
(* Properties of the worked scenarios *)

(* C12: for the blocks header 1 'A', 50 'x', header 2 'A.1', 50 'y' and a  *)
(* soft_limit above the size of the whole tree, chunk_tree returns exactly *)
(* one chunk; its section_hierarchy is empty and its content is the        *)
(* heading of A, the x body, the heading of A.1 and the y body in order.   *)
C12_ScenarioA ==
    (blocks = ScenarioA /\ Built /\ get_total_tokens(tree, 0) < soft_limit) =>
        \A n \in DOMAIN results :
            /\ Len(results[n]) = 1
            /\ results[n][1].section_hierarchy = << >>
            /\ results[n][1].content
                 = Join(<< Heading(blocks[1].text), blocks[2].text,
                           Heading(blocks[3].text), blocks[4].text >>,
                        BlankLine)

(* chunk_tree has returned for scenario A under a soft_limit of 25, one    *)
(* above the tree's 24 tokens                                              *)
C12_Witness ==
    /\ blocks = ScenarioA
    /\ get_total_tokens(tree, 0) = 24
    /\ soft_limit = 25
    /\ Len(results) = MaxRuns
    /\ Len(results[1]) = 1
    /\ results[1][1].via = "base"

-----------------------------------------------------------------------------
(* Properties of the fixed-size fallback *)

CeilDiv(a, b) == (a + b - 1) \div b

(* the chunks of the list r that the visit of node k emitted *)
ChunksOf(r, k) == SelectSeq(r, LAMBDA c : c.node = k)

Contents(cs) == Concat([ j \in DOMAIN cs |-> cs[j].content ])

(* the childless content nodes above hard_limit *)
OversizedLeaves ==
    { k \in DOMAIN tree :
        /\ tree[k].type = "content"
        /\ tree[k].children = << >>
        /\ get_total_tokens(tree, k) > hard_limit }

(* C13 as stated: without a language model client and under valid limits,  *)
(* a childless content node of a size above hard_limit H yields            *)
(* ceil(size / H) fallback chunks in content order, none above H tokens.   *)
C13_FallbackCountBySize ==
    (ValidLimits /\ llm_client = "none") =>
        \A n \in DOMAIN results : \A k \in OversizedLeaves :
            LET cs == ChunksOf(results[n], k)
            IN  /\ Len(cs) = CeilDiv(get_total_tokens(tree, k), hard_limit)
                /\ \A j \in DOMAIN cs :
                    /\ cs[j].via = "fallback"
                    /\ count_tokens(cs[j].content) <= hard_limit
                /\ NonBlank(Contents(cs)) = NonBlank(tree[k].content)

(* C13 amended: such a node yields at most ceil(len(content) / (4 * H))    *)
(* fallback chunks, exactly that many when its content holds no            *)
(* whitespace, in content order and none above H tokens.                   *)
C13_FallbackCountByLength ==
    (ValidLimits /\ llm_client = "none") =>
        \A n \in DOMAIN results : \A k \in OversizedLeaves :
            LET cs == ChunksOf(results[n], k)
                windows == CeilDiv(Len(tree[k].content),
                                   CharsPerToken * hard_limit)
            IN  /\ Len(cs) <= windows
                /\ NonBlank(tree[k].content) = tree[k].content
                     => Len(cs) = windows
                /\ \A j \in DOMAIN cs :
                    /\ cs[j].via = "fallback"
                    /\ count_tokens(cs[j].content) <= hard_limit
                /\ NonBlank(Contents(cs)) = NonBlank(tree[k].content)

(* a content node of 1.5 times hard_limit, without whitespace, cut into    *)
(* two chunks                                                              *)
C13_Witness ==
    /\ ValidLimits
    /\ llm_client = "none"
    /\ Len(results) >= 1
    /\ \E k \in OversizedLeaves :
        /\ 2 * get_total_tokens(tree, k) = 3 * hard_limit
        /\ NonBlank(tree[k].content) = tree[k].content
        /\ Len(ChunksOf(results[1], k)) = 2
        /\ results[1][1].node = k

Sizes(r) == [ j \in DOMAIN r |-> count_tokens(r[j].content) ]

Near(a, b) == a - b \in -10..10

(* C14 as stated: with soft_limit 100 and one section of five content      *)
(* children of size 30, the section yields three chunks of sizes about     *)
(* 120, 120 and 10.                                                        *)
C14_ScenarioDThreeChunks ==
    (blocks = ScenarioD /\ soft_limit = 100) =>
        \A n \in DOMAIN results :
            /\ Len(results[n]) = 3
            /\ Near(Sizes(results[n])[1], 120)
            /\ Near(Sizes(results[n])[2], 120)
            /\ Near(Sizes(results[n])[3], 10)

(* C14 amended: the buffer is flushed in the loop when its accumulated     *)
(* size reaches soft_limit, which happens once, after the fourth child     *)
(* (121 tokens with the separators); the fifth child is flushed at the     *)
(* end of the loop, so the section yields two chunks of sizes 121 and 30.  *)
C14_ScenarioDTwoChunks ==
    (blocks = ScenarioD /\ soft_limit = 100) =>
        \A n \in DOMAIN results :
            /\ Len(results[n]) = 2
            /\ results[n][1].via = "flush_loop"
            /\ results[n][1].content
                 = Join([ k \in 1..4 |-> blocks[k + 1].text ], BlankLine)
            /\ results[n][2].via = "flush_final"
            /\ results[n][2].content = blocks[6].text
            /\ Sizes(results[n]) = << 121, 30 >>
            /\ \A j \in DOMAIN results[n] :
                /\ results[n][j].node = 1
                /\ results[n][j].via = "flush_loop"
                     => Sizes(results[n])[j] >= soft_limit

(* chunk_tree has returned for scenario D: five children of size 30 under  *)
(* one section of size 150 and a soft_limit of 100                         *)
C14_Witness ==
    /\ blocks = ScenarioD
    /\ soft_limit = 100
    /\ Len(results) = MaxRuns
    /\ Len(tree[1].children) = 5
    /\ \A c \in Kids(tree, 1) : get_total_tokens(tree, c) = 30
    /\ get_total_tokens(tree, 1) = 150
    /\ Len(results[1]) = 2

-----------------------------------------------------------------------------
(* Properties of the language model split *)

(* an offset list that is not ascending or leaves [0, n] *)
InvalidOffsets(points, n) ==
    \/ \E j \in DOMAIN points : points[j] < 0 \/ points[j] > n
    \/ \E j \in 1..(Len(points) - 1) : points[j] > points[j + 1]

ContentList(cs) == [ j \in DOMAIN cs |-> cs[j].content ]

(* C15: when the language model answers for an oversized leaf with offsets *)
(* that are not ascending or not within [0, len(content)], the leaf's      *)
(* chunks are exactly those of the fixed-size fallback.                    *)
C15_InvalidOffsetsFallBack ==
    (llm_client = "client" /\ llm_response.kind = "points"
       /\ hard_limit >= 1) =>
        \A n \in DOMAIN results : \A k \in OversizedLeaves :
            LET cs == ChunksOf(results[n], k)
                content == tree[k].content
            IN  (cs # << >>
                   /\ InvalidOffsets(llm_response.points, Len(content))) =>
                    /\ \A j \in DOMAIN cs : cs[j].via = "fallback"
                    /\ ContentList(cs)
                         = ContentList(_simple_split(content, << >>, << >>))

(* C16: chunk_tree never raises because of the language model, whether it *)
(* is absent, raises or answers anything; the only error that leaves      *)
(* chunk_tree is the fallback's own, for a hard_limit of 0.                *)
C16_SegmenterNeverRaises ==
    pc = "error" => hard_limit = 0

-----------------------------------------------------------------------------
(* Properties of the chunk metadata *)

RECURSIVE Subtree(_, _)
Subtree(t, n) ==
    { n } \cup UNION { Subtree(t, c) : c \in Kids(t, n) }

(* the nodes that _collect_content renders a heading or a text for *)
Renders(t, n) ==
    \/ t[n].type = "section" /\ t[n].title # << >>
    \/ t[n].content # << >>

PagesOf(t, nodes) == UNION { Range(t[n].page_numbers) : n \in nodes }

(* pages is sorted, holds the pages of every rendering node of nodes and   *)
(* of no node outside nodes                                                *)
PagesCover(t, pages, nodes) ==
    /\ pages = SortedSeq(Range(pages))
    /\ PagesOf(t, { n \in nodes : Renders(t, n) }) \subseteq Range(pages)
    /\ Range(pages) \subseteq PagesOf(t, nodes)

(* the nodes below the children kids[a..b] *)
Buffered(t, kids, a, b) == UNION { Subtree(t, kids[j]) : j \in a..b }

BufferText(t, kids, a, b) ==
    Join([ j \in 1..(b - a + 1) |-> _collect_content(t, kids[a + j - 1]) ],
         BlankLine)

(* C17: a base-case chunk carries the pages of the visited node and all    *)
(* its descendants; a chunk of a buffer flush carries the sorted pages of  *)
(* every node rendered into the buffer.                                    *)
C17_PagesCoverRenderedNodes ==
    \A n \in DOMAIN results : \A j \in DOMAIN results[n] :
        LET c == results[n][j]
            kids == tree[c.node].children
        IN  /\ c.via = "base" =>
                PagesCover(tree, c.page_numbers, Subtree(tree, c.node))
            /\ c.via \in MergeVias =>
                \E a, b \in DOMAIN kids :
                    /\ a <= b
                    /\ c.content = BufferText(tree, kids, a, b)
                    /\ PagesCover(tree, c.page_numbers,
                                  Buffered(tree, kids, a, b))

RECURSIVE PathTo(_, _)
PathTo(t, n) ==
    IF n = 0 THEN << >> ELSE Append(PathTo(t, ParentOf(t, n)), n)

(* the titles of the titled sections from below the root down to node n *)
PathTitles(t, n) ==
    LET titled == SelectSeq(PathTo(t, n),
                            LAMBDA k : t[k].type = "section"
                                         /\ t[k].title # << >>)
    IN  [ j \in DOMAIN titled |-> t[titled[j]].title ]

(* C20: the section_hierarchy of every chunk is, outermost first, the      *)
(* titles of the titled section nodes on the path from the root to the     *)
(* node whose visit emitted the chunk, that node included; the root's      *)
(* title and the titles of subtrees already left are not in it.            *)
C20_HierarchyIsPath ==
    \A n \in DOMAIN results : \A j \in DOMAIN results[n] :
        results[n][j].section_hierarchy
            = PathTitles(tree, results[n][j].node)

(* a returned list with a chunk under two nested titled sections, followed *)
(* by a chunk of a later sibling section that carries one title only       *)
C20_Witness ==
    \E n \in DOMAIN results : \E a, b \in DOMAIN results[n] :
        /\ a < b
        /\ Len(results[n][a].section_hierarchy) = 2
        /\ Len(results[n][b].section_hierarchy) = 1
        /\ results[n][b].section_hierarchy[1]
             # results[n][a].section_hierarchy[1]

-----------------------------------------------------------------------------
(* Properties of the pipeline *)

(* C19: every block that the pipeline hands to build_tree, converted from  *)
(* content_list and rewritten by repair_hierarchy, has a level if and only *)
(* if its type is 'header'.                                                *)
C19_LevelIffHeader ==
    (content_list # None /\ pc \in { "build", "chunk", "done" }) =>
        \A k \in DOMAIN blocks :
            blocks[k].level # None <=> blocks[k].type = "header"

-----------------------------------------------------------------------------
(* Properties of the buffer of _process_children *)

(* the nodes whose visit takes the recursive case: the root or a child     *)
(* that _process_children recursed into, of size >= soft_limit and with    *)
(* children                                                                *)
RECURSIVE Recursing(_, _)
Recursing(t, n) ==
    /\ get_total_tokens(t, n) >= soft_limit
    /\ t[n].children # << >>
    /\ (n = 0 \/ Recursing(t, ParentOf(t, n)))

Small(t, n) == get_total_tokens(t, n) < soft_limit

Blank(s) == Strip(s) = << >>

(* the chunk r[j] is the buffer of the children kids[a..b] of node n, all  *)
(* small, and stands in r behind every chunk of an earlier child and in    *)
(* front of every chunk of a later child                                   *)
IsBufferOf(r, j, n, a, b) ==
    LET kids == tree[n].children
    IN  /\ r[j].node = n
        /\ r[j].via \in MergeVias
        /\ r[j].content = BufferText(tree, kids, a, b)
        /\ \A q \in a..b : Small(tree, kids[q])
        /\ \A k \in DOMAIN r :
            /\ r[k].node \in Buffered(tree, kids, 1, a - 1) => k < j
            /\ r[k].node \in Buffered(tree, kids, b + 1, Len(kids)) => k > j

(* the small child kids[p] of node n went into a buffer that was emitted   *)
BufferedChildEmitted(r, n, p) ==
    \E j \in DOMAIN r : \E a \in 1..p : \E b \in p..Len(tree[n].children) :
        IsBufferOf(r, j, n, a, b)

(* the children of n from position p on are all small and blank *)
BlankTail(n, p) ==
    LET kids == tree[n].children
    IN  \A q \in p..Len(kids) :
            Small(tree, kids[q]) /\ Blank(_collect_content(tree, kids[q]))

(* C21 as stated: in the recursive case every small child is emitted in a  *)
(* buffer chunk, one chunk for a run of consecutive small children, in     *)
(* front of every chunk of a later child (so in front of the large child   *)
(* that follows the buffer) and behind every chunk of an earlier child;    *)
(* the buffer left after the last child is emitted too.                    *)
C21_BufferNeverDropped ==
    \A m \in DOMAIN results : \A n \in DOMAIN tree :
        Recursing(tree, n) =>
            \A p \in DOMAIN tree[n].children :
                Small(tree, tree[n].children[p]) =>
                    BufferedChildEmitted(results[m], n, p)

(* C21 amended: the same, except that the buffer left after the last child *)
(* is emitted only if its text is not blank, so that small children of     *)
(* blank text at the end of the child list may be left out.                *)
C21_NonBlankBufferNeverDropped ==
    \A m \in DOMAIN results : \A n \in DOMAIN tree :
        Recursing(tree, n) =>
            \A p \in DOMAIN tree[n].children :
                (Small(tree, tree[n].children[p]) /\ ~ BlankTail(n, p)) =>
                    BufferedChildEmitted(results[m], n, p)

(* a returned list in which a buffer below soft_limit was flushed in front *)
(* of the chunk of a large child, and another buffer after the last child  *)
C21_Witness ==
    \E m \in DOMAIN results : \E a, b, c \in DOMAIN results[m] :
        LET r == results[m]
        IN  /\ a < b /\ b < c
            /\ r[a].via = "flush_large"
            /\ count_tokens(r[a].content) < soft_limit
            /\ r[b].node # r[a].node
            /\ ParentOf(tree, r[b].node) = r[a].node
            /\ r[c].via = "flush_final"
            /\ r[c].node = r[a].node

(* the chunks of the buffer flushes in the list r *)
MergeChunks(r) == { j \in DOMAIN r : r[j].via \in MergeVias }

(* C22: every buffer chunk holds a run kids[a..b] of small children of a   *)
(* node in the recursive case such that the buffer was below soft_limit    *)
(* after each child before the last one; it was flushed inside the loop    *)
(* exactly if its token count is >= soft_limit, and a buffer chunk below   *)
(* soft_limit ends in front of a large child or at the last child.         *)
C22_InLoopFlushExactlyAtSoftLimit ==
    \A m \in DOMAIN results : \A j \in MergeChunks(results[m]) :
        LET r == results[m]
            n == r[j].node
            kids == tree[n].children
            tokens == count_tokens(r[j].content)
        IN  /\ Recursing(tree, n)
            /\ r[j].via = "flush_loop" <=> tokens >= soft_limit
            /\ \E a, b \in DOMAIN kids :
                /\ a <= b
                /\ IsBufferOf(r, j, n, a, b)
                /\ \A q \in a..(b - 1) :
                    count_tokens(BufferText(tree, kids, a, q)) < soft_limit
                /\ tokens < soft_limit =>
                    (b = Len(kids) \/ ~ Small(tree, kids[b + 1]))

(* a returned list in which a buffer of two children was flushed inside    *)
(* the loop and the remainder below soft_limit after the last child        *)
C22_Witness ==
    \E m \in DOMAIN results : \E a, b \in MergeChunks(results[m]) :
        LET r == results[m]
            kids == tree[r[a].node].children
        IN  /\ a < b
            /\ r[a].node = r[b].node
            /\ r[a].via = "flush_loop"
            /\ r[a].content = BufferText(tree, kids, 1, 2)
            /\ count_tokens(_collect_content(tree, kids[1])) < soft_limit
            /\ r[b].via = "flush_final"
            /\ count_tokens(r[b].content) < soft_limit

-----------------------------------------------------------------------------
(* Properties of the leaf case *)

(* the chunks of the list r emitted by the visit of node n *)
ChunksAt(r, n) == { j \in DOMAIN r : r[j].node = n }

(* a childless node with soft_limit <= size <= hard_limit *)
MidSizeLeaf(n) ==
    /\ tree[n].children = << >>
    /\ soft_limit <= get_total_tokens(tree, n)
    /\ get_total_tokens(tree, n) <= hard_limit

SplitVias == { "segment", "fallback" }

(* the chunks of the segmenter and of the fixed-size fallback, and a raise *)
(* out of them, come from a childless node larger than hard_limit          *)
SplitOnlyAboveHardLimit ==
    /\ \A m \in DOMAIN results : \A j \in DOMAIN results[m] :
        results[m][j].via \in SplitVias =>
            /\ tree[results[m][j].node].children = << >>
            /\ get_total_tokens(tree, results[m][j].node) > hard_limit
    /\ pc = "error" =>
        \E n \in DOMAIN tree :
            /\ tree[n].children = << >>
            /\ get_total_tokens(tree, n) > hard_limit

(* C23 as stated: under 0 < soft_limit < hard_limit every childless node   *)
(* with soft_limit <= size <= hard_limit is emitted as exactly one chunk   *)
(* that carries its whole content, and the segmenter and the fallback act  *)
(* only on childless nodes larger than hard_limit.                         *)
C23_MidSizeLeafOneChunk ==
    ValidLimits =>
        /\ \A m \in DOMAIN results : \A n \in DOMAIN tree :
            MidSizeLeaf(n) =>
                \E j \in DOMAIN results[m] :
                    /\ ChunksAt(results[m], n) = { j }
                    /\ results[m][j].content = _collect_content(tree, n)
        /\ SplitOnlyAboveHardLimit

(* C23 amended: for every pair of limits such a node is emitted as exactly *)
(* one unsplit chunk if its content is not blank, and as no chunk if it is *)
(* blank; the segmenter and the fallback act only on childless nodes       *)
(* larger than hard_limit.                                                 *)
C23_NonBlankMidSizeLeafOneChunk ==
    /\ \A m \in DOMAIN results : \A n \in DOMAIN tree :
        MidSizeLeaf(n) =>
            IF Blank(_collect_content(tree, n))
            THEN ChunksAt(results[m], n) = {}
            ELSE \E j \in DOMAIN results[m] :
                    /\ ChunksAt(results[m], n) = { j }
                    /\ results[m][j].content = _collect_content(tree, n)
                    /\ tree[n].type = "content" =>
                        results[m][j].content = blocks[n].text
    /\ SplitOnlyAboveHardLimit

(* a returned list with the chunk of a content node of exactly hard_limit  *)
(* tokens, the chunk of one of exactly soft_limit tokens, and fallback     *)
(* chunks of a node above hard_limit                                       *)
C23_Witness ==
    /\ ValidLimits
    /\ \E m \in DOMAIN results : \E a, b, c \in DOMAIN results[m] :
        LET r == results[m]
        IN  /\ tree[r[a].node].type = "content"
            /\ get_total_tokens(tree, r[a].node) = hard_limit
            /\ r[a].content = blocks[r[a].node].text
            /\ tree[r[b].node].type = "content"
            /\ get_total_tokens(tree, r[b].node) = soft_limit
            /\ ChunksAt(r, r[b].node) = { b }
            /\ r[c].via = "fallback"

-----------------------------------------------------------------------------
(* Properties of the stack of build_tree *)

HeaderLevelsPositive ==
    \A k \in DOMAIN blocks : HasLevel(blocks[k]) => blocks[k].level[1] >= 1

Sections(t) == { k \in DOMAIN t : t[k].type = "section" }

(* the section created last, the root while there is none *)
LastSection(t) ==
    IF Sections(t) = {} THEN 0
    ELSE CHOOSE k \in Sections(t) : \A j \in Sections(t) : j <= k

IsPrefix(s, u) == Len(s) <= Len(u) /\ s = SubSeq(u, 1, Len(s))

(* C24: while build_tree runs on blocks whose header levels are >= 1, and  *)
(* when it has returned, the stack has the root at its bottom, the levels  *)
(* of its nodes strictly increase from bottom to top, and it is the path   *)
(* from the root to the section created last; the pops for the next header *)
(* leave a prefix of it that still holds the root and whose top, if not    *)
(* the root, has a level below the header's.                               *)
C24_StackIsOpenPath ==
    (HeaderLevelsPositive /\ pc \in { "build", "chunk", "done" }) =>
        /\ Len(stack) >= 1
        /\ stack[1] = 0
        /\ \A k \in 1..(Len(stack) - 1) :
            /\ tree[stack[k]].level[1] < tree[stack[k + 1]].level[1]
            /\ stack[k + 1] \in Kids(tree, stack[k])
        /\ stack = << 0 >> \o PathTo(tree, LastSection(tree))
        /\ (pc = "build" /\ i <= Len(blocks) /\ IsSectionHeader(blocks[i])) =>
            LET stk == PopStack(tree, stack, blocks[i])
                top == stk[Len(stk)]
            IN  /\ IsPrefix(stk, stack)
                /\ Len(stk) >= 1
                /\ stk[1] = 0
                /\ top # 0 => tree[top].level[1] < blocks[i].level[1]
                /\ \A k \in (Len(stk) + 1)..Len(stack) :
                    tree[stack[k]].level[1] >= blocks[i].level[1]

(* build_tree in the middle of its loop, with two sections above the root  *)
(* on the stack, a section that was popped, and a header next whose pops   *)
(* will take a section off the stack                                       *)
C24_Witness ==
    /\ HeaderLevelsPositive
    /\ pc = "build"
    /\ i <= Len(blocks)
    /\ IsSectionHeader(blocks[i])
    /\ Len(stack) >= 3
    /\ Sections(tree) \ Range(stack) # {}
    /\ Len(PopStack(tree, stack, blocks[i])) < Len(stack)

-----------------------------------------------------------------------------
(* Properties of the chunk contents *)

(* C25: under 0 < soft_limit < hard_limit every chunk of every list that   *)
(* chunk_tree returns has a content that is not empty after stripping      *)
(* whitespace, also when content nodes of empty text stand in front of a   *)
(* large sibling.                                                          *)
C25_ChunksNotBlank ==
    ValidLimits =>
        \A m \in DOMAIN results : \A j \in DOMAIN results[m] :
            ~ Blank(results[m][j].content)

(* C26: under 0 < soft_limit < hard_limit the content of every chunk of    *)
(* the base case, heading lines and separators included, has a token count *)
(* below soft_limit.                                                       *)
C26_BaseChunkBelowSoftLimit ==
    ValidLimits =>
        \A m \in DOMAIN results : \A j \in DOMAIN results[m] :
            results[m][j].via = "base" =>
                count_tokens(results[m][j].content) < soft_limit

-----------------------------------------------------------------------------
(* Properties of the empty document *)

(* C27: for an empty block sequence build_tree returns the root alone,     *)
(* without children, and chunk_tree on that tree does not raise and        *)
(* returns an empty list.                                                  *)
C27_EmptyDocumentNoChunks ==
    blocks = << >> =>
        /\ Built => (DOMAIN tree = { 0 } /\ tree[0].children = << >>)
        /\ pc # "error"
        /\ \A m \in DOMAIN results : results[m] = << >>

-----------------------------------------------------------------------------
(* Properties of the MinerU polling *)

(* the response carries the object {"code": 0, "data": [items]} *)
HasItems(r) ==
    /\ r.exc = "none"
    /\ r.status_code = 200
    /\ r.json
    /\ r.code = 0
    /\ r.data # None
    /\ r.data[1] # << >>

(* the normalised state of the item of the uploaded file *)
ChosenState(r) ==
    _choose_batch_item(_normalize_batch_items(r.data), DataId).state

(* the task states by what they promise *)
StatesInProgress == { "pending", "running", "converting", "processing" }
StatesKnown == StatesInProgress \cup { "failed", "error", "done", "completed" }

(* a response that cannot be followed by success: 401, 403, 404, an API   *)
(* code other than 0, a failed task, an unknown state                     *)
CannotSucceed(r) ==
    /\ r.exc = "none"
    /\ \/ r.status_code \in { 401, 403, 404 }
       \/ r.status_code = 200 /\ r.json /\ r.code # 0
       \/ HasItems(r) /\ ChosenState(r) \in { "failed", "error" }
       \/ HasItems(r) /\ ChosenState(r) \notin StatesKnown

(* an in-progress state, a network timeout or a connection error *)
MayPollAgain(r) ==
    \/ r.exc \in { "Timeout", "ConnectionError" }
    \/ HasItems(r) /\ ChosenState(r) \in StatesInProgress

(* C28: a status response that cannot succeed later is the last one: the   *)
(* polling has raised and returned no item; every response that was        *)
(* followed by another status request was an in-progress state, a network  *)
(* timeout or a connection error, and after such a response the polling    *)
(* goes on unless the attempts are used up.                                *)
C28_TerminalResponseEndsPolling ==
    \A k \in DOMAIN responses :
        /\ CannotSucceed(responses[k]) =>
            /\ k = Len(responses)
            /\ poll_pc = "raised"
            /\ poll_error \notin { None, Some("poll_timeout") }
            /\ batch_item = None
        /\ k < Len(responses) => MayPollAgain(responses[k])
        /\ (k = Len(responses) /\ MayPollAgain(responses[k])) =>
            \/ poll_pc = "polling"
            \/ poll_pc = "raised" /\ poll_error = Some("poll_timeout")
                 /\ Len(responses) = max_poll_attempts

(* a 404 after an in-progress state and a network timeout ended the        *)
(* polling                                                                 *)
C28_Witness ==
    /\ Len(responses) = 3
    /\ Len(responses) <= max_poll_attempts
    /\ HasItems(responses[1])
    /\ responses[2].exc = "Timeout"
    /\ responses[3].status_code = 404
    /\ poll_pc = "raised"
    /\ poll_error = Some("not_found")

Retried(r) == AttemptOutcome(r).kind = "continue"

(* what holds in every state of a parse: at most max_poll_attempts status  *)
(* requests; an item is returned on a state 'done' or 'completed' only and *)
(* carries the state 'done'; when every attempt was retried the polling    *)
(* raises the polling-timeout error; the download starts for an item that  *)
(* is 'done' and has a result zip URL only                                 *)
PollingBounded ==
    /\ Len(responses) <= max_poll_attempts
    /\ attempt = Len(responses)
    /\ poll_pc \in { "returned", "download", "document" } =>
        /\ batch_item # None
        /\ batch_item[1].state = "done"
        /\ HasItems(responses[Len(responses)])
        /\ ChosenState(responses[Len(responses)]) \in { "done", "completed" }
    /\ poll_pc \in { "download", "document" } =>
        TruthyStr(batch_item[1].full_zip_url)
    /\ (poll_pc = "raised" /\ poll_error = Some("poll_timeout")) <=>
        /\ poll_pc \notin { "parse", "polling" }
        /\ Len(responses) = max_poll_attempts
        /\ \A k \in DOMAIN responses : Retried(responses[k])

PollingEnded == poll_pc \in { "raised", "document" }

(* C29: the polling sends at most max_poll_attempts status requests and    *)
(* ends: it returns an item of state 'done' (also for 'completed') or      *)
(* raises, with the polling-timeout error when every attempt ended in an   *)
(* in-progress state or a network error; parse goes on to the download     *)
(* only with an item that is 'done' and has a result zip URL, and parse    *)
(* always ends with a Document or an exception.                            *)
C29_PollingTerminates ==
    [] PollingBounded /\ <> PollingEnded

(* a polling that used all its attempts on in-progress states and network  *)
(* errors and raised the polling-timeout error                             *)
C29_Witness ==
    /\ max_poll_attempts = MaxPollAttempts
    /\ Len(responses) = max_poll_attempts
    /\ \E k \in DOMAIN responses : responses[k].exc = "ConnectionError"
    /\ \E k \in DOMAIN responses : HasItems(responses[k])
    /\ poll_pc = "raised"
    /\ poll_error = Some("poll_timeout")

-----------------------------------------------------------------------------
(* Properties of the legacy raw-text chunker *)

(* C30: for every text and every configuration with max_chunk_size >= 1,   *)
(* min_chunk_size >= 1 and overlap_size >= 0, every pass of the while loop *)
(* of _chunk_raw_text leaves the start offset strictly greater than it     *)
(* was, so that the loop ends.                                             *)
C30_StartStrictlyIncreases ==
    [][ (legacy_pc = "loop" /\ chunk_start < Len(raw_text))
            => chunk_start' > chunk_start ]_vars

=============================================================================
